---- MODULE Spec2Model ----
(***************************************************************************)
(* go-du: the directory tree size accumulator (package dirtree) and the   *)
(* command line program that drives it.                                   *)
(*                                                                         *)
(* Six specifications share the definitions below:                         *)
(*   SpecCalc  the size conversion DirTree.calcSize as a pure function    *)
(*   Spec      a caller of the package: New on a hierarchy, then          *)
(*             PrintDirTree with any flag pair (as Test_BuildTree does)   *)
(*   SpecPath  the same caller, over many spellings of the root path      *)
(*   SpecLinks the same caller, on hierarchies with a hard link           *)
(*   SpecHuge  the same caller, on hierarchies with a huge file           *)
(*   SpecMain  the program: init() (flags), then main()                   *)
(***************************************************************************)
EXTENDS Integers, Sequences, FiniteSets, TLC

VARIABLES
    pc,         \* where the caller / the program is
    fs,         \* the file hierarchy found at `path` (input, never written)
    path,       \* the path handed to New
    unitSize,   \* the unit size handed to New
    dt,         \* the *DirTree New returned, NoTree before that
    out,        \* the []string the last PrintDirTree returned
    flags,      \* countFiles and summarise of the last PrintDirTree call
    errLog,     \* what errLog.Println wrote to stderr, in order
    calcArg,    \* SpecCalc: size, blockSize, unitSize
    calcRes,    \* SpecCalc: what calcSize returned
    opts,       \* SpecMain: the parsed command line flags
    args,       \* SpecMain: flag.Args(), each operand with its hierarchy
    argFiles,   \* SpecMain: the operands main walks
    argIdx,     \* SpecMain: operands main's loop has finished
    stdout,     \* SpecMain: the lines written by fmt.Println
    exitStatus, \* SpecMain: the process exit status, NoExit while running
    newCalls    \* SpecMain: calls of dirtree.New made so far

inputVars == << fs, path >>

calcVars == << calcArg, calcRes >>

mainVars == << opts, args, argFiles, argIdx, stdout, exitStatus, newCalls >>

vars == << pc, fs, path, unitSize, dt, out, flags, errLog, calcArg, calcRes,
           opts, args, argFiles, argIdx, stdout, exitStatus, newCalls >>

(***************************************************************************)
(* Integer arithmetic of Go's int64.                                       *)
(* TLC's integers are 32 bits wide, so the signed two's complement word is *)
(* modelled IntBits wide; every sum and product of calcSize and of the     *)
(* size accumulation is reduced to that word as the hardware reduces an    *)
(* int64.                                                                  *)
(***************************************************************************)
IntBits == 16

MaxInt == 2 ^ (IntBits - 1) - 1

MinInt == -(2 ^ (IntBits - 1))

\* The value an int64 holds after an operation whose exact result is x.
Wrap(x) == ((x - MinInt) % (2 ^ IntBits)) + MinInt

\* Go's integer division truncates toward zero (b > 0 here).
Quo(a, b) == IF a >= 0 THEN a \div b ELSE -((-a) \div b)

\* A plausible bug: floor division on a negative dividend.
QuoFloor(a, b) == a \div b

\* ceil(a / b) for a >= 0, b > 0, exact.
CeilDiv(a, b) == (a + b - 1) \div b

(***************************************************************************)
(* calcSize (dirtree.go:128-131), with the receiver's blockSize and        *)
(* unitSize as parameters.                                                 *)
(***************************************************************************)
\* A plausible bug: the allocation is not rounded up to whole blocks.
calcSizeNoBlock(size, blockSize, unit) ==
    Wrap(1 + Quo(Wrap(size - 1), unit))

\* A plausible bug: the unit count is rounded down instead of up.
calcSizeFloorUnits(size, blockSize, unit) ==
    LET allocSize == Wrap(Wrap(1 + Quo(Wrap(size - 1), blockSize)) * blockSize)
    IN  Quo(allocSize, unit)

calcSize(size, blockSize, unit) ==
    LET allocSize == Wrap(Wrap(1 + Quo(Wrap(size - 1), blockSize)) * blockSize)
    IN  Wrap(1 + Quo(Wrap(allocSize - 1), unit))

(***************************************************************************)
(* Paths are sequences of one-character strings.  filepath.Clean,          *)
(* filepath.Join and filepath.IsAbs are the Unix ones of Go's library, as  *)
(* documented: Clean collapses separators, drops "." elements, resolves    *)
(* inner ".." elements, drops ".." at the root, and turns "" into ".".     *)
(***************************************************************************)
Sep == "/"

Dot == "."

RECURSIVE SplitFrom(_, _, _)
\* The elements of p from position i on, cur being the element under way.
SplitFrom(p, i, cur) ==
    IF i > Len(p) THEN << cur >>
    ELSE IF p[i] = Sep THEN << cur >> \o SplitFrom(p, i + 1, << >>)
    ELSE SplitFrom(p, i + 1, Append(cur, p[i]))

IsAbs(p) == Len(p) > 0 /\ p[1] = Sep

RECURSIVE CleanElems(_, _, _, _)
\* Clean's pass over the elements: kept is the stack of elements kept so far.
CleanElems(elems, i, kept, rooted) ==
    IF i > Len(elems) THEN kept
    ELSE LET e == elems[i] IN
         IF e = << >> \/ e = << Dot >> THEN CleanElems(elems, i + 1, kept, rooted)
         ELSE IF e = << Dot, Dot >> THEN
             IF Len(kept) > 0 /\ kept[Len(kept)] # << Dot, Dot >>
             THEN CleanElems(elems, i + 1, SubSeq(kept, 1, Len(kept) - 1), rooted)
             ELSE IF rooted THEN CleanElems(elems, i + 1, kept, rooted)
             ELSE CleanElems(elems, i + 1, Append(kept, e), rooted)
         ELSE CleanElems(elems, i + 1, Append(kept, e), rooted)

RECURSIVE JoinElems(_, _)
JoinElems(elems, i) ==
    IF i > Len(elems) THEN << >>
    ELSE IF i = Len(elems) THEN elems[i]
    ELSE elems[i] \o << Sep >> \o JoinElems(elems, i + 1)

\* A plausible bug: the path is used as it was given.
CleanIdentity(p) == p

Clean(p) ==
    LET rooted == IsAbs(p)
        kept == CleanElems(SplitFrom(p, 1, << >>), 1, << >>, rooted)
        body == JoinElems(kept, 1)
        res == IF rooted THEN << Sep >> \o body ELSE body
    IN  IF res = << >> THEN << Dot >> ELSE res

\* filepath.Join(dir, name) of two elements.
Join(dir, name) ==
    IF dir = << >> /\ name = << >> THEN << >>
    ELSE IF dir = << >> THEN Clean(name)
    ELSE IF name = << >> THEN Clean(dir)
    ELSE Clean(dir \o << Sep >> \o name)

\* What path[0] of an empty string does in Go: a run-time panic.
IndexPanic == << "panic: index out of range" >>

\* A plausible bug: "./" is put before every relative path.
fixPathAlways(p) ==
    IF IsAbs(p) THEN p ELSE << Dot, Sep >> \o p

\* fixPath (dirtree.go:147-155).
fixPath(p) ==
    IF IsAbs(p) THEN p
    ELSE IF p = << >> THEN IndexPanic
    ELSE IF p[1] = Dot THEN p
    ELSE << Dot, Sep >> \o p

(***************************************************************************)
(* The file hierarchy New walks.  It is what the system calls of the       *)
(* package see: objects 0..n, object 0 being the one at the path given to  *)
(* New, every other one an entry of the directory `parent`; os.ReadDir     *)
(* returns a directory's entries sorted by name, which is the order of     *)
(* the object numbers here.  ino is the inode of the object: two entries   *)
(* with one inode are hard links to one file.  At most one system call of  *)
(* a walk fails:                                                           *)
(*   stat     os.Stat of the object fails (it is missing or unreadable)    *)
(*   statfs   syscall.Statfs of the object fails                           *)
(*   readdir  os.ReadDir of the directory fails after k entries            *)
(*   info     DirEntry.Info of the entry fails                             *)
(***************************************************************************)
MaxEntries == 3

FileSizes == << 0, 3456, 5678 >>

DirSizes == << 4096, 0 >>

BlockSizes == << 4096, 1024 >>

Profiles == 0 .. (Len(FileSizes) - 1)

NoFault == [kind |-> "none", at |-> -1, k |-> 0]

ParentVecs(n) == { p \in [1 .. n -> 0 .. (n - 1)] : \A i \in 1 .. n : p[i] < i }

KindVecs(n, p) == { d \in [0 .. n -> BOOLEAN] : \A i \in 1 .. n : d[p[i]] }

Objects(n, p, d, prof) ==
    [i \in 0 .. n |->
        [parent |-> IF i = 0 THEN -1 ELSE p[i],
         isDir  |-> d[i],
         bytes  |-> IF d[i] THEN DirSizes[((i + prof) % Len(DirSizes)) + 1]
                    ELSE FileSizes[((i + prof) % Len(FileSizes)) + 1],
         bsize  |-> BlockSizes[(((i + prof) \div 2) % Len(BlockSizes)) + 1],
         ino    |-> i]]

\* The entries of directory id, as object numbers in listing order.
Children(nodes, id) ==
    SelectSeq([i \in 1 .. (Cardinality(DOMAIN nodes) - 1) |-> i],
              LAMBDA i : nodes[i].parent = id)

Faults(nodes) ==
    LET ids == DOMAIN nodes
        walked == { i \in ids : i = 0 \/ nodes[i].isDir }
    IN  { NoFault }
        \cup { [kind |-> "stat", at |-> i, k |-> 0] : i \in walked }
        \cup { [kind |-> "statfs", at |-> i, k |-> 0] : i \in walked }
        \cup { [kind |-> "info", at |-> i, k |-> 0] : i \in ids \ { 0 } }
        \cup UNION { { [kind |-> "readdir", at |-> i, k |-> j] :
                          j \in { x \in 0 .. 1 :
                                    x = 0 \/ x < Len(Children(nodes, i)) } } :
                        i \in { w \in walked : nodes[w].isDir } }

HierarchiesOf(nodes) == { [nodes |-> nodes, fault |-> ft] : ft \in Faults(nodes) }

HierarchiesOfKinds(n, p, d) ==
    UNION { HierarchiesOf(Objects(n, p, d, prof)) : prof \in Profiles }

HierarchiesOfShape(n, p) ==
    UNION { HierarchiesOfKinds(n, p, d) : d \in KindVecs(n, p) }

HierarchiesOfSize(n) ==
    UNION { HierarchiesOfShape(n, p) : p \in ParentVecs(n) }

FileSystems == UNION { HierarchiesOfSize(n) : n \in 0 .. MaxEntries }

(***************************************************************************)
(* The system calls, on object id of hierarchy f.                          *)
(***************************************************************************)
Failing(f, kind, id) == f.fault.kind = kind /\ f.fault.at = id

\* The name of entry id: "a", "aa", "aaa", ... (ReadDir sorts by name).
Name(id) == [j \in 1 .. id |-> "a"]

\* getFSBlockSize (dirtree.go:137-144): 0 stands for the error return.  An
\* object that cannot be inspected has no filesystem to ask either.
getFSBlockSize(f, id) ==
    IF Failing(f, "statfs", id) \/ Failing(f, "stat", id) THEN 0
    ELSE f.nodes[id].bsize

\* os.ReadDir: the entries read, all of them unless the call fails.
ReadDir(f, id) ==
    LET all == Children(f.nodes, id)
    IN  IF Failing(f, "readdir", id)
        THEN [entries |-> SubSeq(all, 1, f.fault.k), err |-> TRUE]
        ELSE [entries |-> all, err |-> FALSE]

Diag(op, p) == [op |-> op, path |-> p]

(***************************************************************************)
(* New and buildDirTree (dirtree.go:42-95).  The result is the node, what  *)
(* was logged while it was built, the directories listed, and whether the  *)
(* call ended in a run-time panic instead of returning.                    *)
(***************************************************************************)
\* A plausible bug: the fallback block size is used whatever the probe says.
BlockSizeOfAlwaysFallback(f, id) == 4096

\* dirtree.go:46-51.
BlockSizeOf(f, id) ==
    IF getFSBlockSize(f, id) = 0 THEN 4096 ELSE getFSBlockSize(f, id)

\* A plausible bug: the subdirectory is put in front of the ones before it.
AddSubdirInFront(d, sdt) ==
    [d EXCEPT !.size = Wrap(@ + sdt.size), !.subdirs = << sdt >> \o @]

\* A plausible bug: the subdirectory is kept but its size is not added.
AddSubdirNoSize(d, sdt) == [d EXCEPT !.subdirs = Append(@, sdt)]

\* dirtree.go:84-85.
AddSubdir(d, sdt) ==
    [d EXCEPT !.size = Wrap(@ + sdt.size), !.subdirs = Append(@, sdt)]

\* A plausible bug: the file is kept but its size is not added.
AddFileNotCounted(d, name, bytes) ==
    [d EXCEPT !.files = Append(@, [path |-> Join(d.path, name),
                                   size |-> calcSize(bytes, d.blockSize, d.unitSize)])]

\* A plausible bug: the file is listed with its byte size, not its allocation.
AddFileRawSize(d, name, bytes) ==
    [d EXCEPT !.size = Wrap(@ + calcSize(bytes, d.blockSize, d.unitSize)),
              !.files = Append(@, [path |-> Join(d.path, name), size |-> bytes])]

\* dirtree.go:87-92.
AddFile(d, name, bytes) ==
    [d EXCEPT !.size = Wrap(@ + calcSize(bytes, d.blockSize, d.unitSize)),
              !.files = Append(@, [path |-> Join(d.path, name),
                                   size |-> calcSize(bytes, d.blockSize, d.unitSize)])]

\* A plausible bug: the node's own allocation is left out.
OwnSizeZero(d, bytes) == [d EXCEPT !.size = 0]

\* dirtree.go:67.
OwnSize(d, bytes) == [d EXCEPT !.size = calcSize(bytes, d.blockSize, d.unitSize)]

\* A plausible bug: a listing that fails is not reported.
ListLogSilent(rd, p) == << >>

\* dirtree.go:73-75: what is logged after os.ReadDir returned rd for path p.
ListLog(rd, p) == IF rd.err THEN << Diag("readdir", p) >> ELSE << >>

RECURSIVE New(_, _, _, _)
RECURSIVE buildEntries(_, _, _, _)

\* A plausible bug: the loop ends at the first entry that cannot be
\* inspected (a break where the code has continue).
buildEntriesBreaks(f, entries, i, acc) ==
    IF i > Len(entries) \/ acc.panic THEN acc
    ELSE LET e == entries[i] IN
         IF Failing(f, "info", e)
         THEN [acc EXCEPT !.log = Append(@, Diag("info", Join(acc.dt.path, Name(e))))]
         ELSE IF f.nodes[e].isDir
         THEN LET r == New(f, e, Join(acc.dt.path, Name(e)), acc.dt.unitSize) IN
              IF r.panic
              THEN [acc EXCEPT !.panic = TRUE, !.log = @ \o r.log,
                               !.listed = @ \o r.listed]
              ELSE buildEntries(f, entries, i + 1,
                       [acc EXCEPT !.dt = AddSubdir(@, r.dt), !.log = @ \o r.log,
                                   !.listed = @ \o r.listed])
         ELSE buildEntries(f, entries, i + 1,
                  [acc EXCEPT !.dt = AddFile(@, Name(e), f.nodes[e].bytes)])

\* The loop of buildDirTree (dirtree.go:76-94) from entry i of `entries` on.
buildEntries(f, entries, i, acc) ==
    IF i > Len(entries) \/ acc.panic THEN acc
    ELSE LET e == entries[i] IN
         IF Failing(f, "info", e)
         THEN buildEntries(f, entries, i + 1,
                  [acc EXCEPT !.log = Append(@, Diag("info", Join(acc.dt.path, Name(e))))])
         ELSE IF f.nodes[e].isDir
         THEN LET r == New(f, e, Join(acc.dt.path, Name(e)), acc.dt.unitSize) IN
              IF r.panic
              THEN [acc EXCEPT !.panic = TRUE, !.log = @ \o r.log,
                               !.listed = @ \o r.listed]
              ELSE buildEntries(f, entries, i + 1,
                       [acc EXCEPT !.dt = AddSubdir(@, r.dt), !.log = @ \o r.log,
                                   !.listed = @ \o r.listed])
         ELSE buildEntries(f, entries, i + 1,
                  [acc EXCEPT !.dt = AddFile(@, Name(e), f.nodes[e].bytes)])

\* buildDirTree (dirtree.go:62-95) on the node d made for object id.
buildDirTree(f, id, d) ==
    IF Failing(f, "stat", id)
    THEN \* the error is logged, then dtInfo.Size() is called on a nil FileInfo
         [panic |-> TRUE, dt |-> d, log |-> << Diag("stat", d.path) >>, listed |-> << >>]
    ELSE LET d1 == OwnSize(d, f.nodes[id].bytes) IN
         IF ~f.nodes[id].isDir
         THEN [panic |-> FALSE, dt |-> d1, log |-> << >>, listed |-> << >>]
         ELSE LET rd == ReadDir(f, id) IN
              buildEntries(f, rd.entries, 1,
                  [panic |-> FALSE, dt |-> d1, log |-> ListLog(rd, d.path),
                   listed |-> << d.path >>])

\* New (dirtree.go:42-55).
New(f, id, p, unit) ==
    buildDirTree(f, id,
        [path |-> p, size |-> 0, files |-> << >>, subdirs |-> << >>,
         unitSize |-> unit, blockSize |-> BlockSizeOf(f, id)])

(***************************************************************************)
(* PrintDirTree (dirtree.go:103-119).  outFormat is "%d\t%s", the one      *)
(* format the program and the tests pass: a line is the decimal size, a    *)
(* tab, the path.                                                          *)
(***************************************************************************)
DigitChars == << "0", "1", "2", "3", "4", "5", "6", "7", "8", "9" >>

RECURSIVE Decimal(_)
\* fmt's %d.
Decimal(n) ==
    IF n < 0 THEN << "-" >> \o Decimal(-n)
    ELSE IF n < 10 THEN << DigitChars[n + 1] >>
    ELSE Decimal(n \div 10) \o << DigitChars[(n % 10) + 1] >>

Tab == "\t"

\* fmt.Sprintf(outFormat, size, p).
Sprintf(size, p) == Decimal(size) \o << Tab >> \o p

\* A plausible bug: the file lines carry the directory's size.
FileLinesDirSize(d) == [i \in 1 .. Len(d.files) |-> Sprintf(d.size, fixPath(d.files[i].path))]

\* dirtree.go:107-109.
FileLines(d) ==
    [i \in 1 .. Len(d.files) |-> Sprintf(d.files[i].size, fixPath(d.files[i].path))]

\* A plausible bug: the node's line carries the path as stored.
OwnLineRawPath(d) == Sprintf(d.size, d.path)

\* dirtree.go:116.
OwnLine(d) == Sprintf(d.size, fixPath(Clean(d.path)))

\* A plausible bug: subdirectories are printed whatever summarise says.
DescendAlways(summarise) == TRUE

\* dirtree.go:111.
Descend(summarise) == ~summarise

\* A plausible bug: the node's own line is put first.
AssembleOwnFirst(fileLines, subLines, own) == << own >> \o fileLines \o subLines

\* A plausible bug: the subdirectories come before the node's files.
AssembleSubdirsFirst(fileLines, subLines, own) == subLines \o fileLines \o << own >>

\* The order of the three appends (dirtree.go:108, 113, 116).
Assemble(fileLines, subLines, own) == fileLines \o subLines \o << own >>

RECURSIVE PrintDirTree(_, _, _)
RECURSIVE printSubdirs(_, _, _, _)

\* The loop of dirtree.go:112-114 from subdirectory i on.
printSubdirs(subdirs, i, countFiles, summarise) ==
    IF i > Len(subdirs) THEN << >>
    ELSE PrintDirTree(subdirs[i], countFiles, summarise)
         \o printSubdirs(subdirs, i + 1, countFiles, summarise)

PrintDirTree(d, countFiles, summarise) ==
    Assemble(IF countFiles THEN FileLines(d) ELSE << >>,
             IF Descend(summarise)
             THEN printSubdirs(d.subdirs, 1, countFiles, summarise) ELSE << >>,
             OwnLine(d))

(***************************************************************************)
(* Spec: a caller of the package.  It calls New once on the hierarchy and  *)
(* then PrintDirTree any number of times with any flags.                   *)
(***************************************************************************)
NoTree == [path |-> << >>, size |-> -1, files |-> << >>, subdirs |-> << >>,
           unitSize |-> 0, blockSize |-> 0]

NoFlags == [countFiles |-> FALSE, summarise |-> FALSE]

NoExit == -1

UnitSizes == { 512, 1024 }

RootPaths == { << "t" >>, << Sep, "t" >> }

IdleCalc == calcArg = [size |-> 0, blockSize |-> 1, unitSize |-> 1] /\ calcRes = 0

IdleMain ==
    /\ opts = [k |-> FALSE, a |-> FALSE, s |-> FALSE, v |-> FALSE]
    /\ args = << >>
    /\ argFiles = << >>
    /\ argIdx = 0
    /\ stdout = << >>
    /\ exitStatus = NoExit
    /\ newCalls = 0

Init ==
    /\ pc = "start"
    /\ fs \in FileSystems
    /\ path \in RootPaths
    /\ unitSize \in UnitSizes
    /\ dt = NoTree
    /\ out = << >>
    /\ flags = NoFlags
    /\ errLog = << >>
    /\ IdleCalc
    /\ IdleMain

\* dt := New(path, unitSize) returns.
CallNew ==
    /\ pc = "start"
    /\ LET r == New(fs, 0, path, unitSize) IN
        /\ ~r.panic
        /\ dt' = r.dt
        /\ errLog' = errLog \o r.log
    /\ pc' = "built"
    /\ UNCHANGED << inputVars, unitSize, out, flags, calcVars, mainVars >>

\* New(path, unitSize) panics: the call does not return and the run ends.
CallNewPanics ==
    /\ pc = "start"
    /\ LET r == New(fs, 0, path, unitSize) IN
        /\ r.panic
        /\ errLog' = errLog \o r.log
    /\ pc' = "panic"
    /\ UNCHANGED << inputVars, unitSize, dt, out, flags, calcVars, mainVars >>

\* A plausible bug: the files of the receiver are consumed as they are printed.
CallPrintDirTreeDrainsFiles(countFiles, summarise) ==
    /\ pc \in { "built", "printed" }
    /\ out' = PrintDirTree(dt, countFiles, summarise)
    /\ dt' = IF countFiles THEN [dt EXCEPT !.files = << >>] ELSE dt
    /\ flags' = [countFiles |-> countFiles, summarise |-> summarise]
    /\ pc' = "printed"
    /\ UNCHANGED << inputVars, unitSize, errLog, calcVars, mainVars >>

\* out := dt.PrintDirTree("%d\t%s", countFiles, summarise).  The method
\* assigns to no field of its receiver or of a node below it.
CallPrintDirTree(countFiles, summarise) ==
    /\ pc \in { "built", "printed" }
    /\ out' = PrintDirTree(dt, countFiles, summarise)
    /\ flags' = [countFiles |-> countFiles, summarise |-> summarise]
    /\ pc' = "printed"
    /\ UNCHANGED << inputVars, unitSize, dt, errLog, calcVars, mainVars >>

Next ==
    \/ CallNew
    \/ CallNewPanics
    \/ \E countFiles \in BOOLEAN, summarise \in BOOLEAN :
           CallPrintDirTree(countFiles, summarise)

Spec == Init /\ [][Next]_vars

(***************************************************************************)
(* SpecCalc: calcSize as a pure function of a byte count, a block size     *)
(* and a unit size: small values, the sizes of the tests, and byte counts  *)
(* next to the largest integer.                                            *)
(***************************************************************************)
MaxSmallSize == 9

MaxSmallDiv == 4

CalcSizes ==
    (-3 .. MaxSmallSize) \cup { 3456, 4096, 4097, 5678 }
        \cup ((MaxInt - MaxSmallSize) .. MaxInt)

CalcBlocks == (1 .. MaxSmallDiv) \cup { 512, 1024, 4096 }

CalcUnits == (1 .. MaxSmallDiv) \cup { 512, 1024 }

IdleTree ==
    /\ fs = [nodes |-> Objects(0, << >>, [i \in { 0 } |-> FALSE], 0), fault |-> NoFault]
    /\ path = << "t" >>
    /\ unitSize = 512
    /\ dt = NoTree
    /\ out = << >>
    /\ flags = NoFlags
    /\ errLog = << >>

InitCalc ==
    /\ pc = "calc"
    /\ calcArg \in [size : CalcSizes, blockSize : CalcBlocks, unitSize : CalcUnits]
    /\ calcRes = 0
    /\ IdleTree
    /\ IdleMain

\* calcRes := dt.calcSize(size) on a node with the given blockSize and unitSize.
CallCalcSize ==
    /\ pc = "calc"
    /\ calcRes' = calcSize(calcArg.size, calcArg.blockSize, calcArg.unitSize)
    /\ pc' = "calcdone"
    /\ UNCHANGED << inputVars, unitSize, dt, out, flags, errLog, calcArg, mainVars >>

NextCalc == CallCalcSize

SpecCalc == InitCalc /\ [][NextCalc]_vars

\* The allocation of b bytes in blocks of k bytes: ceil(b/k)*k.
Allocated(b, k) == CeilDiv(b, k) * k

\* C2 as stated: for every non-negative byte count b, block size k > 0 and
\* unit size u > 0, calcSize(b) returns ceil(ceil(b/k)*k / u).
C2_AsStated ==
    (pc = "calcdone" /\ calcArg.size >= 0)
        => calcRes = CeilDiv(Allocated(calcArg.size, calcArg.blockSize), calcArg.unitSize)

\* C2 amended: for every byte count b >= 1, block size k > 0 and unit size
\* u > 0 such that ceil(b/k)*k is representable in the integer type,
\* calcSize(b) returns ceil(ceil(b/k)*k / u).
C2_CalcSizeIsCeilOfCeil ==
    (/\ pc = "calcdone"
     /\ calcArg.size >= 1
     /\ Allocated(calcArg.size, calcArg.blockSize) <= MaxInt)
        => calcRes = CeilDiv(Allocated(calcArg.size, calcArg.blockSize), calcArg.unitSize)

\* C2 witness: 5678 bytes in 4096-byte blocks and 512-byte units are two
\* blocks, 16 units.
C2_Witness ==
    /\ pc = "calcdone"
    /\ calcArg = [size |-> 5678, blockSize |-> 4096, unitSize |-> 512]
    /\ calcRes = 16

\* C3 as stated: for every block size k > 0 and unit size u > 0, calcSize(0)
\* returns ceil(k/u), which is never zero.
C3_ZeroBytesIsOneBlock ==
    (pc = "calcdone" /\ calcArg.size = 0)
        => /\ calcRes = CeilDiv(calcArg.blockSize, calcArg.unitSize)
           /\ calcRes # 0

(***************************************************************************)
(* Claims about the tree New returns and the lines PrintDirTree returns    *)
(* (Spec).                                                                 *)
(***************************************************************************)
Built == pc \in { "built", "printed" }

\* New has returned and nothing was called since.
Returned == pc = "built"

RECURSIVE SumOfSizes(_, _)
\* The exact sum of the size fields of items i.. of a sequence.
SumOfSizes(items, i) ==
    IF i > Len(items) THEN 0 ELSE items[i].size + SumOfSizes(items, i + 1)

\* The entries of directory id that became subdirectory nodes: the ones that
\* were listed, could be inspected and are directories.
SubdirObjects(f, id) ==
    SelectSeq(ReadDir(f, id).entries,
              LAMBDA e : ~Failing(f, "info", e) /\ f.nodes[e].isDir)

RECURSIVE SizeIsOwnPlusChildren(_, _, _)
\* Node d, built for object id, and every node below it satisfy the equation.
SizeIsOwnPlusChildren(f, id, d) ==
    /\ d.size = calcSize(f.nodes[id].bytes, d.blockSize, d.unitSize)
                + SumOfSizes(d.subdirs, 1) + SumOfSizes(d.files, 1)
    /\ IF f.nodes[id].isDir
       THEN /\ Len(d.subdirs) = Len(SubdirObjects(f, id))
            /\ \A i \in 1 .. Len(d.subdirs) :
                   SizeIsOwnPlusChildren(f, SubdirObjects(f, id)[i], d.subdirs[i])
       ELSE d.subdirs = << >>

RECURSIVE NodesOf(_)
\* The node d and every node below it.
NodesOf(d) == { d } \cup UNION { NodesOf(d.subdirs[i]) : i \in 1 .. Len(d.subdirs) }

\* The line of a file entry.
FileLine(fi) == Sprintf(fi.size, fixPath(fi.path))

\* Every line that belongs to the subtree of d: the lines of its nodes and,
\* when files are counted, of their files.
LinesUnder(d, countFiles) ==
    { OwnLine(e) : e \in NodesOf(d) }
        \cup (IF countFiles
              THEN UNION { { FileLine(e.files[i]) : i \in 1 .. Len(e.files) } :
                           e \in NodesOf(d) }
              ELSE { })

\* Line a occurs in out, and before every occurrence of line b.
Before(a, b) ==
    /\ \E i \in 1 .. Len(out) : out[i] = a
    /\ \A i, j \in 1 .. Len(out) : (out[i] = a /\ out[j] = b) => i < j

Occurrences(a) == Cardinality({ i \in 1 .. Len(out) : out[i] = a })

\* C1: after New returns, every node of the tree has size = the allocation
\* of its own byte size + the sizes of its subdirs + the sizes of its files,
\* also when entries were skipped because of errors.
C1_SizeIsOwnPlusChildren == Built => SizeIsOwnPlusChildren(fs, 0, dt)

\* C1 witness: a tree two directories deep, built although an entry could
\* not be inspected or a listing failed.
C1_Witness ==
    /\ pc = "built"
    /\ fs.fault.kind \in { "info", "readdir" }
    /\ Len(errLog) = 1
    /\ \E i \in 1 .. Len(dt.subdirs) :
           dt.subdirs[i].subdirs # << >> \/ dt.subdirs[i].files # << >>

\* C4 as stated: when the object at the path cannot be inspected the run
\* does not crash: a diagnostic is written, New returns a node of one
\* allocation unit, and PrintDirTree on it returns exactly one line.
C4_MissingPathIsReported ==
    (Failing(fs, "stat", 0) /\ pc # "start")
        => /\ Built
           /\ Len(errLog) >= 1
           /\ dt.size = calcSize(0, dt.blockSize, dt.unitSize)
           /\ (pc = "printed" => Len(out) = 1)

\* C5 as stated: with summarise = true PrintDirTree returns exactly one
\* line, the line of the node it was called on.
C5_AsStated ==
    (pc = "printed" /\ flags.summarise)
        => out = << Sprintf(dt.size, fixPath(Clean(dt.path))) >>

\* C5 amended: with summarise = true and countFiles = false PrintDirTree
\* returns exactly one line, the line of the node it was called on; with
\* summarise = true no line of a subdirectory node is returned.
C5_SummariseIsOneLine ==
    (pc = "printed" /\ flags.summarise)
        => /\ ~flags.countFiles => out = << Sprintf(dt.size, fixPath(Clean(dt.path))) >>
           /\ \A d \in NodesOf(dt) \ { dt } : Occurrences(OwnLine(d)) = 0

\* C5 witness: a summary of a tree that is two directories deep and holds
\* files.
C5_Witness ==
    /\ pc = "printed"
    /\ flags = [countFiles |-> FALSE, summarise |-> TRUE]
    /\ Len(out) = 1
    /\ \E i \in 1 .. Len(dt.subdirs) : dt.subdirs[i].subdirs # << >>
    /\ \E d \in NodesOf(dt) : d.files # << >>

\* C6: with countFiles = true every visited node contributes one line per
\* file it owns, in stored order, before every line of its subdirectories
\* and before its own line; a root with one subdirectory holding one file
\* gives, with summarise = false, the file, the subdirectory, the root.
C6_FilesFirst ==
    (pc = "printed" /\ flags.countFiles)
        => /\ \A d \in (IF flags.summarise THEN { dt } ELSE NodesOf(dt)) :
                \A i \in 1 .. Len(d.files) :
                    /\ Occurrences(FileLine(d.files[i])) = 1
                    /\ Before(FileLine(d.files[i]), OwnLine(d))
                    /\ i < Len(d.files)
                           => Before(FileLine(d.files[i]), FileLine(d.files[i + 1]))
                    /\ ~flags.summarise
                           => \A k \in 1 .. Len(d.subdirs) :
                                  \A l \in LinesUnder(d.subdirs[k], TRUE) :
                                      Before(FileLine(d.files[i]), l)
           /\ (/\ ~flags.summarise
               /\ dt.files = << >>
               /\ Len(dt.subdirs) = 1
               /\ dt.subdirs[1].subdirs = << >>
               /\ Len(dt.subdirs[1].files) = 1)
                  => out = << FileLine(dt.subdirs[1].files[1]),
                              Sprintf(dt.subdirs[1].size, fixPath(dt.subdirs[1].path)),
                              Sprintf(dt.size, fixPath(Clean(dt.path))) >>

\* C6 witness: all files of a root that owns a file and a subdirectory that
\* owns a file.
C6_Witness ==
    /\ pc = "printed"
    /\ flags = [countFiles |-> TRUE, summarise |-> FALSE]
    /\ Len(dt.files) = 1
    /\ Len(dt.subdirs) = 1
    /\ Len(dt.subdirs[1].files) = 1
    /\ Len(out) = 4

\* C7: with summarise = false the complete output of each child comes, in
\* stored child order, before the line of the node: every directory's line
\* follows the lines of all its descendants, and with countFiles = false
\* there is exactly one line per directory node and none for a file.
C7_ChildrenBeforeParent ==
    (pc = "printed" /\ ~flags.summarise)
        => /\ \A d \in NodesOf(dt) :
                /\ \A k \in 1 .. Len(d.subdirs) :
                       \A l \in LinesUnder(d.subdirs[k], flags.countFiles) :
                           Before(l, OwnLine(d))
                /\ \A k, m \in 1 .. Len(d.subdirs) :
                       k < m => \A a \in LinesUnder(d.subdirs[k], flags.countFiles),
                                   b \in LinesUnder(d.subdirs[m], flags.countFiles) :
                                       Before(a, b)
           /\ ~flags.countFiles
                  => /\ Len(out) = Cardinality(NodesOf(dt))
                     /\ \A d \in NodesOf(dt) : Occurrences(OwnLine(d)) = 1
                     /\ \A d \in NodesOf(dt) : \A i \in 1 .. Len(d.files) :
                            Occurrences(FileLine(d.files[i])) = 0

\* C7 witness: directories only, of a root with two subdirectories and a
\* file somewhere.
C7_Witness ==
    /\ pc = "printed"
    /\ flags = [countFiles |-> FALSE, summarise |-> FALSE]
    /\ Len(dt.subdirs) = 2
    /\ \E d \in NodesOf(dt) : d.files # << >>
    /\ Len(out) = 3

(***************************************************************************)
(* SpecPath: the same caller over every spelling of the root path of up to *)
(* MaxPathLen characters, on a few hierarchies.                            *)
(***************************************************************************)
MaxPathLen == 4

PathChars == { Sep, Dot, "t" }

AllPaths == UNION { [1 .. n -> PathChars] : n \in 1 .. MaxPathLen }

\* A file, an empty directory, and a directory with two entries, with no
\* failing call.
PathHierarchies ==
    { h \in HierarchiesOfSize(0) \cup HierarchiesOfShape(2, << 0, 0 >>) :
        h.fault = NoFault }

InitPath ==
    /\ pc = "start"
    /\ fs \in PathHierarchies
    /\ path \in AllPaths
    /\ unitSize \in UnitSizes
    /\ dt = NoTree
    /\ out = << >>
    /\ flags = NoFlags
    /\ errLog = << >>
    /\ IdleCalc
    /\ IdleMain

NextPath ==
    \/ CallNew
    \/ \E countFiles \in BOOLEAN, summarise \in BOOLEAN :
           CallPrintDirTree(countFiles, summarise)

SpecPath == InitPath /\ [][NextPath]_vars

\* The normalisation the claim describes, of a non-empty path.
Normalised(p) ==
    IF p[1] = Sep \/ p[1] = Dot THEN p ELSE << Dot, Sep >> \o p

\* p is lexically clean: "/", ".", or elements none of which is empty or
\* ".", with ".." only at the front of a relative path.
IsCleanPath(p) ==
    LET e == SplitFrom(p, 1, << >>)
        first == IF IsAbs(p) THEN 2 ELSE 1
    IN  \/ p = << Sep >>
        \/ p = << Dot >>
        \/ \A i \in first .. Len(e) :
               /\ e[i] # << >>
               /\ e[i] # << Dot >>
               /\ e[i] = << Dot, Dot >>
                      => /\ ~IsAbs(p)
                         /\ \A j \in 1 .. (i - 1) : e[j] = << Dot, Dot >>

Last(lines) == lines[Len(lines)]

\* C8 as stated: for every node and flag pair the last line is the node's
\* own line, with its size and its path: "./" put before a relative path
\* that does not start with ".", any other path unchanged.
C8_AsStated ==
    pc = "printed" => Last(out) = Sprintf(dt.size, Normalised(dt.path))

\* C8 amended: for every node and flag pair the last line is the single
\* line of the node, with its size and its path as cleaned by
\* filepath.Clean and then normalised ("./" before a relative cleaned path
\* that does not start with ".", any other cleaned path unchanged); a path
\* that is already clean appears exactly as the claim says.
C8_LastLineIsOwnLine ==
    pc = "printed"
        => /\ Last(out) = Sprintf(dt.size, Normalised(Clean(dt.path)))
           /\ Occurrences(Last(out)) = 1
           /\ IsCleanPath(Clean(dt.path))
           /\ IsCleanPath(dt.path) => Last(out) = Sprintf(dt.size, Normalised(dt.path))
           /\ \A d \in NodesOf(dt) \ { dt } :
                  /\ IsCleanPath(d.path)
                  /\ Last(PrintDirTree(d, flags.countFiles, flags.summarise))
                         = Sprintf(d.size, Normalised(d.path))

\* C8 witness: the root "./t/" of a tree with a file and a subdirectory is
\* printed as "./t", and its hidden-looking sibling spelling ".t" unchanged.
C8_Witness ==
    /\ pc = "printed"
    /\ path = << Dot, Sep, "t", Sep >>
    /\ flags.countFiles
    /\ dt.subdirs # << >>
    /\ dt.files # << >>
    /\ Last(out) = Sprintf(dt.size, << Dot, Sep, "t" >>)

(***************************************************************************)
(* SpecMain: the program (part_004).  init() has parsed the flags; the     *)
(* flags -L, -H and -x are parsed but never read and are left out.  An     *)
(* operand is a path with the hierarchy found there.                       *)
(***************************************************************************)
MaxArgs == 2

\* The hierarchies of the operands: a file, an empty directory, or a
\* directory with one file, with every failing call.
MainHierarchies ==
    { h \in HierarchiesOfSize(0) \cup HierarchiesOfKinds(1, << 0 >>, << FALSE >> @@ (0 :> TRUE)) :
        h.nodes[0].bsize = 4096 /\ (h.nodes[0].isDir => h.nodes[0].bytes = 4096) }

\* The directory the program runs in, walked when no operand is given.
CwdHierarchy ==
    [nodes |-> Objects(1, << 0 >>, (0 :> TRUE) @@ (1 :> FALSE), 0), fault |-> NoFault]

Operand(i, h) == [path |-> Name(i), fs |-> h]

ArgLists ==
    UNION { { [i \in 1 .. n |-> Operand(i, hs[i])] : hs \in [1 .. n -> MainHierarchies] } :
            n \in 0 .. MaxArgs }

\* A plausible bug: the flags are never found in conflict.
conflictingFlagsNever(o) == FALSE

\* conflictingFlags (part_004:74-81).
conflictingFlags(o) == o.a /\ o.s

\* A plausible bug: -k is ignored.
UnitOfIgnoresK(o) == 512

\* part_004:138-141.
UnitOf(o) == IF o.k THEN 1024 ELSE 512

\* printVersion (part_004:84-91).
VersionBanner ==
    << << "go-du unknown" >>,
       << "Copyright (c) 2021 Ilia Frenkel" >>,
       << "MIT License <https://opensource.org/licenses/MIT>" >>,
       << "Source code <https://github.com/iliafrenkel/go-du/>" >>,
       << "\nWritten by Ilia Frenkel<frenkel.ilia@gmail.com>" >>,
       << >> >>

ConflictDiag == Diag("conflict", << "Cannot both summarise and show all entries." >>)

InitMain ==
    /\ pc = "init"
    /\ opts \in [k : BOOLEAN, a : BOOLEAN, s : BOOLEAN, v : BOOLEAN]
    /\ args \in ArgLists
    /\ argFiles = << >>
    /\ argIdx = 0
    /\ stdout = << >>
    /\ exitStatus = NoExit
    /\ newCalls = 0
    /\ IdleTree
    /\ IdleCalc

\* init(): the flags conflict, os.Exit(1) (part_004:119-121).
InitConflict ==
    /\ pc = "init"
    /\ conflictingFlags(opts)
    /\ errLog' = Append(errLog, ConflictDiag)
    /\ exitStatus' = 1
    /\ pc' = "exited"
    /\ UNCHANGED << inputVars, unitSize, dt, out, flags, calcVars, opts, args,
                    argFiles, argIdx, stdout, newCalls >>

\* init(): the version is asked for, os.Exit(0) (part_004:124-127).
InitVersion ==
    /\ pc = "init"
    /\ ~conflictingFlags(opts)
    /\ opts.v
    /\ stdout' = stdout \o VersionBanner
    /\ exitStatus' = 0
    /\ pc' = "exited"
    /\ UNCHANGED << inputVars, unitSize, dt, out, flags, errLog, calcVars, opts,
                    args, argFiles, argIdx, newCalls >>

\* init() returns and main() sets argFiles and bs (part_004:131-141).
MainStart ==
    /\ pc = "init"
    /\ ~conflictingFlags(opts)
    /\ ~opts.v
    /\ argFiles' = IF Len(args) = 0
                   THEN << [path |-> << Dot >>, fs |-> CwdHierarchy] >>
                   ELSE args
    /\ unitSize' = UnitOf(opts)
    /\ pc' = "loop"
    /\ UNCHANGED << inputVars, dt, out, flags, errLog, calcVars, opts, args,
                    argIdx, stdout, exitStatus, newCalls >>

\* One round of main's loop (part_004:143-148): New returns, the lines of
\* PrintDirTree are written.
MainOperand ==
    /\ pc = "loop"
    /\ argIdx < Len(argFiles)
    /\ LET file == argFiles[argIdx + 1]
           r == New(file.fs, 0, file.path, unitSize)
       IN  /\ ~r.panic
           /\ dt' = r.dt
           /\ errLog' = errLog \o r.log
           /\ out' = PrintDirTree(r.dt, opts.a, opts.s)
           /\ stdout' = stdout \o PrintDirTree(r.dt, opts.a, opts.s)
    /\ flags' = [countFiles |-> opts.a, summarise |-> opts.s]
    /\ newCalls' = newCalls + 1
    /\ argIdx' = argIdx + 1
    /\ UNCHANGED << inputVars, unitSize, calcVars, opts, args, argFiles,
                    exitStatus, pc >>

\* One round of main's loop in which New panics: the Go run time ends the
\* process with status 2.
MainOperandPanics ==
    /\ pc = "loop"
    /\ argIdx < Len(argFiles)
    /\ LET file == argFiles[argIdx + 1]
           r == New(file.fs, 0, file.path, unitSize)
       IN  /\ r.panic
           /\ errLog' = errLog \o r.log
    /\ newCalls' = newCalls + 1
    /\ exitStatus' = 2
    /\ pc' = "exited"
    /\ UNCHANGED << inputVars, unitSize, dt, out, flags, calcVars, opts, args,
                    argFiles, argIdx, stdout >>

\* main() returns: exit status 0.
MainReturns ==
    /\ pc = "loop"
    /\ argIdx = Len(argFiles)
    /\ exitStatus' = 0
    /\ pc' = "exited"
    /\ UNCHANGED << inputVars, unitSize, dt, out, flags, errLog, calcVars, opts,
                    args, argFiles, argIdx, stdout, newCalls >>

NextMain ==
    \/ InitConflict
    \/ InitVersion
    \/ MainStart
    \/ MainOperand
    \/ MainOperandPanics
    \/ MainReturns

SpecMain == InitMain /\ [][NextMain]_vars

IsSingleFileDir(h) ==
    /\ DOMAIN h.nodes = 0 .. 1
    /\ h.nodes[0].isDir
    /\ h.nodes[0].bytes <= 4096
    /\ BlockSizeOf(h, 0) = 4096
    /\ ~h.nodes[1].isDir
    /\ h.nodes[1].bytes = 3456
    /\ h.fault.kind \in { "none", "statfs" }

\* The last operand walked was such a directory.
WalkedSingleFileDir ==
    /\ pc \in { "loop", "exited" }
    /\ exitStatus \in { NoExit, 0 }
    /\ argIdx >= 1
    /\ IsSingleFileDir(argFiles[argIdx].fs)

\* C10: on 4096-byte blocks, a directory of at most 4096 bytes with one
\* file of 3456 bytes: in 512-byte units the file is 8 and the directory
\* 16; with -k (1024-byte units) the directory is 8: the same two blocks.
C10_SingleFileScenario ==
    WalkedSingleFileDir
        => /\ Len(dt.files) = 1
           /\ dt.unitSize = (IF opts.k THEN 1024 ELSE 512)
           /\ ~opts.k => (dt.files[1].size = 8 /\ dt.size = 16)
           /\ opts.k => dt.size = 8
           /\ dt.size * dt.unitSize = 2 * 4096
           /\ Last(stdout) = Sprintf(IF opts.k THEN 8 ELSE 16,
                                     fixPath(Clean(argFiles[argIdx].path)))

\* C10 witness: the run with -k has walked such a directory and reports 8.
C10_Witness ==
    /\ WalkedSingleFileDir
    /\ opts.k
    /\ dt.size = 8
    /\ pc = "exited"

(***************************************************************************)
(* Claims about repeated calls of PrintDirTree (Spec).                     *)
(***************************************************************************)
\* The tree New returned for the hierarchy, as it was when New returned.
BuiltTree == New(fs, 0, path, unitSize).dt

\* A call of PrintDirTree on the built tree.
PrintStep == pc \in { "built", "printed" } /\ pc' = "printed"

ListedByNew == New(fs, 0, path, unitSize).listed

\* C12: when the object at the path is inspected successfully and is not a
\* directory, New returns a node of size calcSize(its byte size) with no
\* files and no subdirs, nothing was listed, and PrintDirTree returns one
\* line, the node's, for every pair of flags.
C12_NonDirectoryIsLeaf ==
    /\ (Returned /\ ~Failing(fs, "stat", 0) /\ ~fs.nodes[0].isDir)
           => /\ dt.size = calcSize(fs.nodes[0].bytes, dt.blockSize, dt.unitSize)
              /\ dt.path = path
              /\ dt.files = << >>
              /\ dt.subdirs = << >>
              /\ ListedByNew = << >>
              /\ errLog = << >>
              /\ \A countFiles \in BOOLEAN, summarise \in BOOLEAN :
                     PrintDirTree(dt, countFiles, summarise)
                         = << Sprintf(dt.size, fixPath(Clean(dt.path))) >>
    /\ (pc = "printed" /\ ~Failing(fs, "stat", 0) /\ ~fs.nodes[0].isDir)
           => out = << Sprintf(dt.size, fixPath(Clean(dt.path))) >>

\* C12 witness: a file of 3456 bytes on 4096-byte blocks, given as the
\* argument, is 8 units of 512 bytes and one line with each pair of flags.
C12_Witness ==
    /\ pc = "printed"
    /\ ~fs.nodes[0].isDir
    /\ fs.nodes[0].bytes = 3456
    /\ unitSize = 512
    /\ flags = [countFiles |-> TRUE, summarise |-> FALSE]
    /\ dt.size = 8
    /\ Len(out) = 1

RECURSIVE ObjectPath(_, _, _)
\* The path New builds for object id when the root was given as p.
ObjectPath(f, id, p) ==
    IF id = 0 THEN p ELSE Join(ObjectPath(f, f.nodes[id].parent, p), Name(id))

\* The entries of directory id that were read and could be inspected.
KeptEntries(f, id) ==
    SelectSeq(ReadDir(f, id).entries, LAMBDA e : ~Failing(f, "info", e))

\* Those of them that are files, in listing order.
FileObjects(f, id) == SelectSeq(KeptEntries(f, id), LAMBDA e : ~f.nodes[e].isDir)

RECURSIVE Mirrors(_, _, _)
\* Node d, built for object id, holds one FileInfo per file entry that was
\* read and inspected and one node per such directory entry, in listing
\* order, and so does every node below it.
Mirrors(f, id, d) ==
    IF ~f.nodes[id].isDir THEN d.files = << >> /\ d.subdirs = << >>
    ELSE /\ Len(d.files) = Len(FileObjects(f, id))
         /\ \A i \in 1 .. Len(d.files) :
                d.files[i] =
                    [path |-> Join(d.path, Name(FileObjects(f, id)[i])),
                     size |-> calcSize(f.nodes[FileObjects(f, id)[i]].bytes,
                                       d.blockSize, d.unitSize)]
         /\ Len(d.subdirs) = Len(SubdirObjects(f, id))
         /\ \A i \in 1 .. Len(d.subdirs) :
                /\ d.subdirs[i].path = Join(d.path, Name(SubdirObjects(f, id)[i]))
                /\ Mirrors(f, SubdirObjects(f, id)[i], d.subdirs[i])

\* The nodes of the tree built for the object whose listing fails.
NodesOfFailedListing ==
    { n \in NodesOf(dt) : n.path = ObjectPath(fs, fs.fault.at, path) }

\* PrintDirTree on node n returns one line whatever the flags.
OneLineAlways(n) ==
    \A countFiles \in BOOLEAN, summarise \in BOOLEAN :
        Len(PrintDirTree(n, countFiles, summarise)) = 1

\* C13 as stated: when the listing of a directory fails, a diagnostic is
\* logged, the rest of the tree is built, and the node of that directory has
\* no files, no subdirs and the size of its own allocation; PrintDirTree on
\* it returns exactly one line.
C13_AsStated ==
    (Returned /\ fs.fault.kind = "readdir")
        => /\ errLog = << Diag("readdir", ObjectPath(fs, fs.fault.at, path)) >>
           /\ Cardinality(NodesOfFailedListing) = 1
           /\ \A n \in NodesOfFailedListing :
                  /\ n.files = << >>
                  /\ n.subdirs = << >>
                  /\ n.size = calcSize(fs.nodes[fs.fault.at].bytes, n.blockSize, n.unitSize)
                  /\ OneLineAlways(n)

\* C13 amended: when the listing of a directory fails, a diagnostic is
\* logged, the rest of the tree is built, and the node of that directory
\* holds the entries that were read before the failure, its size being its
\* own allocation plus theirs; when none was read it has no files, no
\* subdirs, the size of its own allocation, and PrintDirTree on it returns
\* exactly one line.
C13_FailedListingKeepsEntriesRead ==
    (Returned /\ fs.fault.kind = "readdir")
        => /\ errLog = << Diag("readdir", ObjectPath(fs, fs.fault.at, path)) >>
           /\ Mirrors(fs, 0, dt)
           /\ Cardinality(NodesOfFailedListing) = 1
           /\ \A n \in NodesOfFailedListing :
                  /\ Len(n.files) + Len(n.subdirs) = fs.fault.k
                  /\ n.size = calcSize(fs.nodes[fs.fault.at].bytes, n.blockSize, n.unitSize)
                                  + SumOfSizes(n.files, 1) + SumOfSizes(n.subdirs, 1)
                  /\ fs.fault.k = 0
                         => /\ n.files = << >>
                            /\ n.subdirs = << >>
                            /\ n.size = calcSize(fs.nodes[fs.fault.at].bytes,
                                                 n.blockSize, n.unitSize)
                            /\ OneLineAlways(n)

\* C13 witness: a subdirectory that has an entry cannot be opened for
\* listing; its node is empty and the root still holds its own file.
C13_Witness ==
    /\ Returned
    /\ fs.fault.kind = "readdir"
    /\ fs.fault.at # 0
    /\ fs.fault.k = 0
    /\ Children(fs.nodes, fs.fault.at) # << >>
    /\ Len(errLog) = 1
    /\ Len(dt.subdirs) = 1
    /\ dt.subdirs[1].files = << >>
    /\ dt.subdirs[1].subdirs = << >>
    /\ Len(dt.files) = 1

(***************************************************************************)
(* Claims about the exit status of the program (SpecMain).                 *)
(***************************************************************************)
\* Some line written to standard output is the report line of path p: a
\* size, a tab, and p cleaned and normalised.
HasReportLine(p) ==
    LET tail == << Tab >> \o fixPath(Clean(p)) IN
    \E j \in 1 .. Len(stdout) :
        /\ Len(stdout[j]) > Len(tail)
        /\ SubSeq(stdout[j], Len(stdout[j]) - Len(tail) + 1, Len(stdout[j])) = tail

\* C14 as stated: without a flag conflict the program exits with status
\* zero, also when a requested path or an entry below it cannot be inspected
\* or listed; the failures are logged only, and every requested argument has
\* its report line.
C14_FailuresAreOnlyLogged ==
    (pc = "exited" /\ ~conflictingFlags(opts))
        => /\ exitStatus = 0
           /\ ~opts.v => \A i \in 1 .. Len(argFiles) : HasReportLine(argFiles[i].path)

\* While it walked its operands the program could not stat a file, or could
\* not stat or read a directory.
CouldNotStatOrRead ==
    \E i \in 1 .. newCalls :
        argFiles[i].fs.fault.kind \in { "stat", "readdir", "info" }

\* C15 as stated: when the program cannot stat a file, or cannot stat or
\* read a directory, it reports an error and its exit status is not the
\* status of a run without errors.
C15_FailureAffectsExitStatus ==
    (pc = "exited" /\ CouldNotStatOrRead)
        => /\ errLog # << >>
           /\ exitStatus # 0

(***************************************************************************)
(* Claims about byte counts calcSize is not meant for (SpecCalc).          *)
(***************************************************************************)
\* C16 as stated: calcSize rejects a negative byte count: a call with one
\* does not return a unit count.
C16_NegativeIsRejected ==
    calcArg.size < 0 => pc # "calcdone"

(***************************************************************************)
(* SpecLinks: the caller of Spec on hierarchies in which one file has two  *)
(* directory entries (a hard link), with no failing call.                  *)
(***************************************************************************)
\* The entries of a hierarchy that are files.
FileEntries(nodes) == { i \in DOMAIN nodes : i # 0 /\ ~nodes[i].isDir }

\* Entry b made a second link to the file of entry a: same inode, same bytes.
Linked(nodes, a, b) ==
    [nodes EXCEPT ![b].ino = nodes[a].ino, ![b].bytes = nodes[a].bytes]

\* Every way of linking two file entries of a hierarchy.
LinksOf(nodes) ==
    { [nodes |-> Linked(nodes, pr[1], pr[2]), fault |-> NoFault] :
          pr \in { q \in FileEntries(nodes) \X FileEntries(nodes) : q[1] < q[2] } }

LinkHierarchies ==
    UNION { LinksOf(h.nodes) : h \in { g \in FileSystems : g.fault = NoFault } }

InitLinks ==
    /\ pc = "start"
    /\ fs \in LinkHierarchies
    /\ path \in RootPaths
    /\ unitSize \in UnitSizes
    /\ dt = NoTree
    /\ out = << >>
    /\ flags = NoFlags
    /\ errLog = << >>
    /\ IdleCalc
    /\ IdleMain

NextLinks ==
    \/ CallNew
    \/ \E countFiles \in BOOLEAN, summarise \in BOOLEAN :
           CallPrintDirTree(countFiles, summarise)

SpecLinks == InitLinks /\ [][NextLinks]_vars

\* The files of the hierarchy: the inodes of its file entries.
FileInodes(nodes) == { nodes[i].ino : i \in FileEntries(nodes) }

RECURSIVE CountFileInfos(_)
\* The number of FileInfo records in the tree of d.
CountFileInfos(d) ==
    Len(d.files)
        + SumOfSizes([i \in 1 .. Len(d.subdirs) |->
                         [size |-> CountFileInfos(d.subdirs[i])]], 1)

\* C17 as stated: a file with several entries under the operand is counted
\* and written for one of them only: the tree holds one FileInfo per file,
\* the listing with countFiles has one line per directory and one per file,
\* and a root that holds only the entries of one file has the size of its
\* own allocation plus one allocation of the file.
C17_LinkedFileCountedOnce ==
    Built
        => /\ CountFileInfos(dt) = Cardinality(FileInodes(fs.nodes))
           /\ (pc = "printed" /\ flags.countFiles /\ ~flags.summarise)
                  => Len(out) = Cardinality(NodesOf(dt))
                                  + Cardinality(FileInodes(fs.nodes))
           /\ (Cardinality(FileInodes(fs.nodes)) = 1 /\ dt.subdirs = << >>)
                  => dt.size = calcSize(fs.nodes[0].bytes, dt.blockSize, dt.unitSize)
                                   + dt.files[1].size

(***************************************************************************)
(* Claims about entries that cannot be inspected, and about the shape of   *)
(* the tree (Spec).                                                        *)
(***************************************************************************)
\* The nodes of the tree built for the directory of the entry that cannot
\* be inspected.
NodesOfFailedEntryParent ==
    { n \in NodesOf(dt) :
          n.path = ObjectPath(fs, fs.nodes[fs.fault.at].parent, path) }

\* The paths held by node n: of its files and of its subdirectories.
PathsHeld(n) ==
    { n.files[i].path : i \in 1 .. Len(n.files) }
        \cup { n.subdirs[i].path : i \in 1 .. Len(n.subdirs) }

\* C18: when one entry of a directory cannot be inspected, a diagnostic is
\* logged, the entry is in neither files nor subdirs and adds nothing to the
\* size, and every other entry of the directory, before and after it, is
\* held and counted.
C18_FailedEntryIsSkipped ==
    (Returned /\ fs.fault.kind = "info")
        => /\ errLog = << Diag("info", ObjectPath(fs, fs.fault.at, path)) >>
           /\ Mirrors(fs, 0, dt)
           /\ \A n \in NodesOf(dt) : ObjectPath(fs, fs.fault.at, path) \notin PathsHeld(n)
           /\ Cardinality(NodesOfFailedEntryParent) = 1
           /\ \A n \in NodesOfFailedEntryParent :
                  LET dir == fs.nodes[fs.fault.at].parent
                      others == SelectSeq(Children(fs.nodes, dir),
                                          LAMBDA e : e # fs.fault.at)
                  IN  /\ PathsHeld(n) = { ObjectPath(fs, others[i], path) :
                                             i \in 1 .. Len(others) }
                      /\ Len(n.files) + Len(n.subdirs) = Len(others)
                      /\ n.size = calcSize(fs.nodes[dir].bytes, n.blockSize, n.unitSize)
                                      + SumOfSizes(n.files, 1) + SumOfSizes(n.subdirs, 1)

\* C18 witness: of three entries of the root the second cannot be
\* inspected; the first and the third are held.
C18_Witness ==
    /\ Returned
    /\ fs.fault = [kind |-> "info", at |-> 2, k |-> 0]
    /\ Len(Children(fs.nodes, 0)) = 3
    /\ Len(errLog) = 1
    /\ PathsHeld(dt) = { Join(path, Name(1)), Join(path, Name(3)) }

RECURSIVE Preorder(_, _, _)
RECURSIVE PreorderFrom(_, _, _, _)
\* The directories at and below object id, whose path is p, in depth-first
\* order: a directory, then what lies below each of its directory entries
\* that was read and inspected, in listing order.
Preorder(f, id, p) ==
    IF ~f.nodes[id].isDir THEN << >>
    ELSE << p >> \o PreorderFrom(f, SubdirObjects(f, id), 1, p)

PreorderFrom(f, dirs, i, p) ==
    IF i > Len(dirs) THEN << >>
    ELSE Preorder(f, dirs[i], Join(p, Name(dirs[i])))
         \o PreorderFrom(f, dirs, i + 1, p)

\* The directories of the hierarchy.
DirObjects(nodes) == { i \in DOMAIN nodes : nodes[i].isDir }

\* C19: a call of New ends after at most one listing per directory of the
\* hierarchy; it lists the directories in one depth-first pass, none of
\* them twice, and when no call fails each of them once; the tree it returns
\* then has one node per directory and one FileInfo per file entry, files
\* and subdirs in listing order.
C19_SinglePassMirrorsHierarchy ==
    LET listed == ListedByNew
        dirs == { ObjectPath(fs, o, path) : o \in DirObjects(fs.nodes) }
    IN  /\ pc \in { "start", "built" }
              => Len(listed) <= Cardinality(DirObjects(fs.nodes))
        /\ Returned
              => /\ listed = Preorder(fs, 0, path)
                 /\ Cardinality({ listed[i] : i \in 1 .. Len(listed) }) = Len(listed)
                 /\ fs.fault = NoFault
                        => /\ { listed[i] : i \in 1 .. Len(listed) } = dirs
                           /\ Mirrors(fs, 0, dt)
                           /\ { n.path : n \in NodesOf(dt) } = dirs \cup { path }
                           /\ Cardinality(NodesOf(dt))
                                  = Cardinality(DirObjects(fs.nodes) \cup { 0 })
                           /\ CountFileInfos(dt) = Cardinality(FileEntries(fs.nodes))

\* C19 witness: a directory in a directory in the root, and a file: three
\* listings, three nodes, one FileInfo.
C19_Witness ==
    /\ Returned
    /\ fs.fault = NoFault
    /\ Len(ListedByNew) = 3
    /\ Len(dt.subdirs) = 1
    /\ Len(dt.subdirs[1].subdirs) = 1
    /\ CountFileInfos(dt) = 1

(***************************************************************************)
(* Claims about the size of the root as a function of the bytes allocated  *)
(* to the hierarchy (Spec).                                                *)
(***************************************************************************)
\* The byte size of an object rounded up to a multiple of the block size k.
RoundedUp(bytes, k) == CeilDiv(bytes, k) * k

\* The same, an object of no bytes taking one block.
Blocks(bytes, k) == IF bytes = 0 THEN k ELSE RoundedUp(bytes, k)

RECURSIVE SumRoundedUp(_, _, _)
\* The sum of RoundedUp(bytes, k) over the objects objs.
SumRoundedUp(objs, nodes, k) ==
    IF objs = { } THEN 0
    ELSE LET o == CHOOSE x \in objs : TRUE
         IN  RoundedUp(nodes[o].bytes, k) + SumRoundedUp(objs \ { o }, nodes, k)

RECURSIVE SumBlocks(_, _, _)
\* The sum of Blocks(bytes, k) over the objects objs.
SumBlocks(objs, nodes, k) ==
    IF objs = { } THEN 0
    ELSE LET o == CHOOSE x \in objs : TRUE
         IN  Blocks(nodes[o].bytes, k) + SumBlocks(objs \ { o }, nodes, k)

\* Every directory of the hierarchy, and the root, is on blocks of one size.
OneBlockSize ==
    \A o \in DirObjects(fs.nodes) \cup { 0 } : fs.nodes[o].bsize = fs.nodes[0].bsize

\* T as the claim defines it.
TotalRoundedUp == SumRoundedUp(DOMAIN fs.nodes, fs.nodes, fs.nodes[0].bsize)

\* T with one block for every object of no bytes.
TotalBlocks == SumBlocks(DOMAIN fs.nodes, fs.nodes, fs.nodes[0].bsize)

ObjectAt(n) == CHOOSE o \in DOMAIN fs.nodes : ObjectPath(fs, o, path) = n.path

C22_VersionIgnoresOtherFlags ==
    (pc = "exited" /\ opts.v)
        => /\ exitStatus = 0
           /\ stdout = VersionBanner
           /\ errLog = << >>
           /\ newCalls = 0

(***************************************************************************)
(* Claims about PrintDirTree with both flags (Spec).                       *)
(***************************************************************************)
\* C23: PrintDirTree with countFiles and summarise both true returns one
\* line per file the node owns, in stored order, then the node's own line,
\* and no line of a subdirectory or of a file below the first level.
C23_BothFlagsGiveOwnFilesAndOwnLine ==
    (pc = "printed" /\ flags.countFiles /\ flags.summarise)
        => /\ Len(out) = Len(dt.files) + 1
           /\ \A i \in 1 .. Len(dt.files) :
                  out[i] = Sprintf(dt.files[i].size, fixPath(dt.files[i].path))
           /\ out[Len(out)] = Sprintf(dt.size, fixPath(Clean(dt.path)))
           /\ \A d \in NodesOf(dt) \ { dt } :
                  /\ Occurrences(OwnLine(d)) = 0
                  /\ \A i \in 1 .. Len(d.files) : Occurrences(FileLine(d.files[i])) = 0

\* C23 witness: both flags on a root that owns a file and has a
\* subdirectory that owns a file: two lines.
C23_Witness ==
    /\ pc = "printed"
    /\ flags = [countFiles |-> TRUE, summarise |-> TRUE]
    /\ Len(dt.files) = 1
    /\ Len(dt.subdirs) = 1
    /\ Len(dt.subdirs[1].files) = 1
    /\ Len(out) = 2

(***************************************************************************)
(* SpecHuge: the caller of Spec on hierarchies in which one file has a     *)
(* byte size within a block of the largest integer (a sparse file), with   *)
(* no failing call.  New takes any unit size: 1 is tried next to the two   *)
(* of the program.                                                         *)
(***************************************************************************)
HugeSizes == { MaxInt, MaxInt - 4096 }

HugeUnitSizes == UnitSizes \cup { 1 }

\* The objects of a hierarchy that are files: its file entries, and the
\* root when it is one.
FileObjectsOf(nodes) == { i \in DOMAIN nodes : ~nodes[i].isDir }

\* File a of the hierarchy with b bytes.
Enlarged(nodes, a, b) == [nodes EXCEPT ![a].bytes = b]

HugeOf(nodes) ==
    { [nodes |-> Enlarged(nodes, a, b), fault |-> NoFault] :
          a \in FileObjectsOf(nodes), b \in HugeSizes }

HugeHierarchies ==
    UNION { HugeOf(h.nodes) : h \in { g \in FileSystems : g.fault = NoFault } }

InitHuge ==
    /\ pc = "start"
    /\ fs \in HugeHierarchies
    /\ path \in RootPaths
    /\ unitSize \in HugeUnitSizes
    /\ dt = NoTree
    /\ out = << >>
    /\ flags = NoFlags
    /\ errLog = << >>
    /\ IdleCalc
    /\ IdleMain

NextHuge ==
    \/ CallNew
    \/ \E countFiles \in BOOLEAN, summarise \in BOOLEAN :
           CallPrintDirTree(countFiles, summarise)

SpecHuge == InitHuge /\ [][NextHuge]_vars

\* Every node of the tree and every file entry has a size of at least 1,
\* and every node a size above that of each of its subdirectories and files.
SizesDecrease ==
    \A n \in NodesOf(dt) :
        /\ n.size >= 1
        /\ \A i \in 1 .. Len(n.files) :
               n.files[i].size >= 1 /\ n.size > n.files[i].size
        /\ \A i \in 1 .. Len(n.subdirs) : n.size > n.subdirs[i].size

\* C24 as stated: in every tree New returns over a hierarchy of
\* non-negative byte sizes, every node and file entry has size at least 1
\* and sizes strictly decrease from the root downward.
C24_SizesStrictlyDecrease ==
    (Returned /\ \A o \in DOMAIN fs.nodes : fs.nodes[o].bytes >= 0)
        => SizesDecrease

(***************************************************************************)
(* Claims about byte counts next to the largest integer (SpecCalc).        *)
(***************************************************************************)
\* allocSize of calcSize (dirtree.go:129): the byte count rounded up to
\* whole blocks, in the integer type.
allocSize(size, blockSize) ==
    Wrap(Wrap(1 + Quo(Wrap(size - 1), blockSize)) * blockSize)

\* C25 as stated, for the byte counts from 1 on (the count 0 is C3's): up
\* to the largest integer calcSize returns at least 1, and the count rounded
\* up to whole blocks is not negative and not smaller than the count.
C25_NoWrapAround ==
    (pc = "calcdone" /\ calcArg.size >= 1)
        => /\ calcRes >= 1
           /\ allocSize(calcArg.size, calcArg.blockSize) >= calcArg.size

====
